---- MODULE Spec2Model ----
(***************************************************************************)
(* Auction House: the auction service (auctions.db), the bid service       *)
(* (bids.db) and the requests in flight between them.                      *)
(*                                                                         *)
(* Every request handler is an asyncio coroutine: the code between two     *)
(* awaits of a remote call runs without interruption, so each action below *)
(* is one such segment.  A handler that awaits a remote call is a task     *)
(* (place_bid, end_auction_with_winner, auto_update_auction_status) whose  *)
(* position is kept in tasks[t].pc; the other handlers are single actions. *)
(*                                                                         *)
(* title, description and created_at are never read by any decision of the *)
(* code and are left out of the auction row.  A bid's timestamp is         *)
(* datetime.now() taken at the INSERT; inserts are serialised by the bid   *)
(* store, so timestamps follow insertion order.                            *)
(*                                                                         *)
(* The auth gateway keeps no state of its own; gateway records the last    *)
(* exchange it handled: the request, whether the token was validated, the  *)
(* downstream call it made and the status the client received.            *)
(***************************************************************************)
EXTENDS Integers, Sequences, FiniteSets, TLC

\* ---------------------------------------------------------------- bounds
MaxAuctions == 2
MaxBids == 2
MaxTime == 1
NTasks == 2
NotifyCap == 2
\* the number of requests the clients send in one run
MaxRequests == 3
MaxBiddingRequests == 6
MaxStockedRequests == 2

\* SQL NULL of the nullable columns winner_id and winning_amount
NULL == 0

AuctionIds == 1..MaxAuctions
Users == {1, 2, 3}
Owners == {1}
Principals == {1, 2}
StartPrices == {1}
Prices == {0, 1, 2, 3}
Amounts == {1, 2, 3}
Times == 0..MaxTime
Tasks == 1..NTasks

\* AuctionStatus, and the state of an id that has no row
PENDING == "pending"
LIVE == "live"
ENDED == "ended"
ABSENT == "absent"
StatusLiterals == {PENDING, LIVE, ENDED}

VARIABLES
    auctions,   \* auctions.db: auction id -> row (status ABSENT: no such row)
    nextId,     \* the next AUTOINCREMENT id of auctions.db
    bids,       \* bids.db: the rows of table bids in insertion order
    now,        \* the clock that datetime('now') reads
    tasks,      \* the handlers that are suspended at an await
    notified,   \* auction id -> number of notify_winner calls (saturating)
    response,   \* the response of the handler that finished last
    budget,     \* the number of requests the clients still send
    gateway     \* the last exchange handled by the auth gateway

vars == <<auctions, nextId, bids, now, tasks, notified, response, budget, gateway>>

\* ------------------------------------------------------------ data shapes
NoRow ==
    [status |-> ABSENT, starting_price |-> 0, current_price |-> 0,
     ends_at |-> 0, owner_id |-> 0, winner_id |-> NULL, winning_amount |-> NULL]

NoBid == [user_id |-> 0, auction_id |-> 0, amount |-> 0, timestamp |-> 0]

\* a handler's locals; unavailable remembers that get_highest_bid returned
\* None because its call failed (the handler itself only holds the None)
IdleTask ==
    [op |-> "idle", pc |-> "idle", aid |-> 0, uid |-> 0, amount |-> 0,
     seen |-> NoRow, hb |-> NoBid, todo |-> <<>>, staged |-> <<>>,
     unavailable |-> FALSE]

\* the gateway has handled no request yet
NoExchange ==
    [route |-> "none", method |-> "none", path |-> <<>>, header |-> "none",
     verified |-> FALSE, forwarded |-> "none", backend |-> 0, status |-> 0]

NoResponse ==
    [op |-> "none", code |-> "none", aid |-> 0, val |-> 0, val2 |-> 0, val3 |-> 0]

Resp(op, code, aid, val, val2) ==
    [op |-> op, code |-> code, aid |-> aid, val |-> val, val2 |-> val2, val3 |-> 0]

\* a request is handled by the first free handler slot (slots are interchangeable)
FreeSlot(t) ==
    /\ tasks[t].op = "idle"
    /\ \A u \in Tasks : u < t => tasks[u].op # "idle"

\* a client sends a request
Accept == budget > 0 /\ budget' = budget - 1

Exists(a) == a \in AuctionIds /\ auctions[a].status # ABSENT

\* the ids the clients ask for: those handed out so far and one that is not
Targets == {a \in AuctionIds : a <= nextId}

Min(x, y) == IF x < y THEN x ELSE y

\* ------------------------------------------------------------- bid store
BidsOf(bs, a) == {i \in 1..Len(bs) : bs[i].auction_id = a}

\* SELECT * FROM bids WHERE auction_id = ? ORDER BY amount DESC, timestamp DESC LIMIT 1
FirstInOrder(bs, a) ==
    CHOOSE i \in BidsOf(bs, a) :
        \A j \in BidsOf(bs, a) \ {i} :
            \/ bs[i].amount > bs[j].amount
            \/ bs[i].amount = bs[j].amount /\ bs[i].timestamp > bs[j].timestamp

\* bid service, GET /bids/highest/{auction_id}: the row or None
HighestBid(bs, a) ==
    IF BidsOf(bs, a) = {} THEN NoBid ELSE bs[FirstInOrder(bs, a)]

\* ---------------------------------------------------------- storage lock
\* A sweep that has executed an UPDATE holds the write lock of auctions.db
\* until its commit; its writes are invisible to the other connections.
Locked(t) == tasks[t].op = "sweep" /\ Len(tasks[t].staged) > 0
LockFreeFor(t) == \A u \in Tasks \ {t} : ~Locked(u)
LockFree == \A u \in Tasks : ~Locked(u)

InitStore ==
    /\ auctions = [a \in AuctionIds |-> NoRow]
    /\ nextId = 1
    /\ bids = <<>>
    /\ now = 0
    /\ tasks = [t \in Tasks |-> IdleTask]
    /\ notified = [a \in AuctionIds |-> 0]
    /\ response = NoResponse
    /\ gateway = NoExchange

Init == InitStore /\ budget = MaxRequests

\* ------------------------------------------------------- auction service
\* POST /auctions
NewRow(u, sp, e) ==
    [status |-> PENDING, starting_price |-> sp, current_price |-> sp,
     ends_at |-> e, owner_id |-> u, winner_id |-> NULL, winning_amount |-> NULL]

CreateAuction(u, sp, e) ==
    /\ Accept
    /\ nextId <= MaxAuctions
    /\ IF LockFree
       THEN /\ auctions' = [auctions EXCEPT ![nextId] = NewRow(u, sp, e)]
            /\ nextId' = nextId + 1
            /\ response' = Resp("create", "ok", nextId, sp, 0)
       ELSE /\ response' = Resp("create", "Internal", 0, 0, 0)
            /\ UNCHANGED <<auctions, nextId>>
    /\ UNCHANGED <<bids, now, tasks, notified>>
    /\ UNCHANGED gateway

\* DELETE /auctions/{auction_id}
DeleteVerdict(row, u) ==
    IF row.status = ABSENT THEN "NotFound"
    ELSE IF row.owner_id # u THEN "Forbidden"
    ELSE "ok"

DeleteAuction(a, u) ==
    /\ Accept
    /\ LET v == DeleteVerdict(auctions[a], u)
       IN IF v # "ok"
          THEN /\ response' = Resp("delete", v, a, 0, 0)
               /\ UNCHANGED auctions
          ELSE IF ~LockFree
          THEN /\ response' = Resp("delete", "Internal", a, 0, 0)
               /\ UNCHANGED auctions
          ELSE /\ auctions' = [auctions EXCEPT ![a] = NoRow]
               /\ response' = Resp("delete", "ok", a, 0, 0)
    /\ UNCHANGED <<nextId, bids, now, tasks, notified>>
    /\ UNCHANGED gateway

\* UPDATE auctions SET current_price = ? with no WHERE clause
SetPriceAll(au, a, p) ==
    [b \in AuctionIds |->
        IF au[b].status # ABSENT THEN [au[b] EXCEPT !.current_price = p] ELSE au[b]]

\* UPDATE auctions SET current_price = ? WHERE id = ?
SetPrice(au, a, p) ==
    IF a \in AuctionIds /\ au[a].status # ABSENT
    THEN [au EXCEPT ![a].current_price = p]
    ELSE au

\* PATCH /auctions/{auction_id}/price, called by any client.  Here and in the
\* other writers of auctions.db, a write made while a sweep holds the write
\* lock raises "database is locked", which the handler turns into a 500
UpdateAuctionPrice(a, p) ==
    /\ Accept
    /\ IF LockFree
       THEN /\ auctions' = SetPrice(auctions, a, p)
            /\ response' = Resp("price", "ok", a, p, 0)
       ELSE /\ response' = Resp("price", "Internal", a, 0, 0)
            /\ UNCHANGED auctions
    /\ UNCHANGED <<nextId, bids, now, tasks, notified>>
    /\ UNCHANGED gateway

\* UPDATE auctions SET status = ? WHERE id = ?
SetStatus(au, a, s) == [au EXCEPT ![a].status = s]

\* PATCH /auctions/{auction_id}/status
UpdateAuctionStatus(a, s) ==
    /\ Accept
    /\ IF s \notin StatusLiterals
       THEN /\ response' = Resp("status", "ValidationError", a, 0, 0)
            /\ UNCHANGED auctions
       ELSE IF ~Exists(a)
       THEN /\ response' = Resp("status", "NotFound", a, 0, 0)
            /\ UNCHANGED auctions
       ELSE IF ~LockFree
       THEN /\ response' = Resp("status", "Internal", a, 0, 0)
            /\ UNCHANGED auctions
       ELSE /\ auctions' = SetStatus(auctions, a, s)
            /\ response' = Resp("status", "ok", a, 0, 0)
    /\ UNCHANGED <<nextId, bids, now, tasks, notified>>
    /\ UNCHANGED gateway

\* GET /auctions/{auction_id}/winner
WinnerView(row) ==
    IF row.status # ENDED THEN NULL ELSE row.winner_id

GetAuctionWinner(a) ==
    /\ Accept
    /\ response' =
         IF ~Exists(a) THEN Resp("winner", "NotFound", a, 0, 0)
         ELSE Resp("winner", auctions[a].status, a, WinnerView(auctions[a]),
                   IF WinnerView(auctions[a]) = NULL THEN NULL
                   ELSE auctions[a].winning_amount)
    /\ UNCHANGED <<auctions, nextId, bids, now, tasks, notified>>
    /\ UNCHANGED gateway

\* ----------------------------------------------------------- bid service
InFlightBids == Cardinality({t \in Tasks : tasks[t].op = "bid" /\ tasks[t].pc = "validate"})

\* place_bid, up to the await of get_auction_details: the auction service
\* answers GET /auctions/{auction_id} with the row, or the call fails (None)
PlaceBidStart(t, a, u, amt, reached) ==
    /\ Accept
    /\ FreeSlot(t)
    /\ Len(bids) + InFlightBids < MaxBids
    /\ tasks' = [tasks EXCEPT ![t] =
            [IdleTask EXCEPT !.op = "bid", !.pc = "validate", !.aid = a,
                             !.uid = u, !.amount = amt,
                             !.seen = IF reached THEN auctions[a] ELSE NoRow]]
    /\ UNCHANGED <<auctions, nextId, bids, now, notified, response>>
    /\ UNCHANGED gateway

\* place_bid with the price check accepting a bid equal to the current price
BidVerdictOffByOne(seen, u, amt) ==
    IF seen.status = ABSENT THEN "NotFound"
    ELSE IF seen.status # LIVE THEN "InvalidState"
    ELSE IF amt < seen.current_price THEN "PriceTooLow"
    ELSE IF u = seen.owner_id THEN "SelfBidForbidden"
    ELSE "ok"

\* place_bid with the price check moved before the status check
BidVerdictPriceFirst(seen, u, amt) ==
    IF seen.status = ABSENT THEN "NotFound"
    ELSE IF amt <= seen.current_price THEN "PriceTooLow"
    ELSE IF seen.status # LIVE THEN "InvalidState"
    ELSE IF u = seen.owner_id THEN "SelfBidForbidden"
    ELSE "ok"

\* place_bid with the owner check moved before the price check
BidVerdictOwnerFirst(seen, u, amt) ==
    IF seen.status = ABSENT THEN "NotFound"
    ELSE IF seen.status # LIVE THEN "InvalidState"
    ELSE IF u = seen.owner_id THEN "SelfBidForbidden"
    ELSE IF amt <= seen.current_price THEN "PriceTooLow"
    ELSE "ok"

\* place_bid without its "Cannot bid on your own auction" check
BidVerdictNoOwnerCheck(seen, u, amt) ==
    IF seen.status = ABSENT THEN "NotFound"
    ELSE IF seen.status # LIVE THEN "InvalidState"
    ELSE IF amt <= seen.current_price THEN "PriceTooLow"
    ELSE "ok"

\* place_bid's four checks, in the order of the code
BidVerdict(seen, u, amt) ==
    IF seen.status = ABSENT THEN "NotFound"
    ELSE IF seen.status # LIVE THEN "InvalidState"
    ELSE IF amt <= seen.current_price THEN "PriceTooLow"
    ELSE IF u = seen.owner_id THEN "SelfBidForbidden"
    ELSE "ok"

\* place_bid keeping one row per bidder and auction (INSERT OR REPLACE)
InsertBidUpsert(bs, u, a, amt) ==
    IF \E i \in BidsOf(bs, a) : bs[i].user_id = u
    THEN [i \in 1..Len(bs) |->
             IF bs[i].auction_id = a /\ bs[i].user_id = u
             THEN [bs[i] EXCEPT !.amount = amt]
             ELSE bs[i]]
    ELSE Append(bs, [user_id |-> u, auction_id |-> a, amount |-> amt,
                     timestamp |-> Len(bs) + 1])

\* INSERT INTO bids (user_id, auction_id, amount, timestamp)
InsertBid(bs, u, a, amt) ==
    Append(bs, [user_id |-> u, auction_id |-> a, amount |-> amt,
                timestamp |-> Len(bs) + 1])

\* place_bid from the answer of get_auction_details to the await of
\* update_auction_price (or to the HTTPException)
PlaceBidValidate(t) ==
    /\ tasks[t].op = "bid" /\ tasks[t].pc = "validate"
    /\ LET k == tasks[t]
           v == BidVerdict(k.seen, k.uid, k.amount)
       IN IF v = "ok"
          THEN /\ bids' = InsertBid(bids, k.uid, k.aid, k.amount)
               /\ tasks' = [tasks EXCEPT ![t].pc = "sync"]
               /\ UNCHANGED response
          ELSE /\ response' = Resp("bid", v, k.aid,
                       IF v = "PriceTooLow" THEN k.seen.current_price ELSE 0, 0)
               /\ tasks' = [tasks EXCEPT ![t] = IdleTask]
               /\ UNCHANGED bids
    /\ UNCHANGED <<auctions, nextId, now, notified, budget>>
    /\ UNCHANGED gateway

\* the price-sync callback reaches PATCH /auctions/{id}/price and is applied
\* (place_bid ignores what update_auction_price returns); place_bid returns
PlaceBidSync(t) ==
    /\ tasks[t].op = "bid" /\ tasks[t].pc = "sync"
    /\ LockFree
    /\ auctions' = SetPrice(auctions, tasks[t].aid, tasks[t].amount)
    /\ response' = Resp("bid", "ok", tasks[t].aid, tasks[t].amount, tasks[t].uid)
    /\ tasks' = [tasks EXCEPT ![t] = IdleTask]
    /\ UNCHANGED <<nextId, bids, now, notified, budget>>
    /\ UNCHANGED gateway

\* place_bid reporting the failed callback and taking its bid back
PlaceBidSyncFailUndo(t) ==
    /\ tasks[t].op = "bid" /\ tasks[t].pc = "sync"
    /\ response' = Resp("bid", "ServiceUnavailable", tasks[t].aid, 0, 0)
    /\ bids' = SubSeq(bids, 1, Len(bids) - 1)
    /\ tasks' = [tasks EXCEPT ![t] = IdleTask]
    /\ UNCHANGED <<auctions, nextId, now, notified, budget>>
    /\ UNCHANGED gateway

\* the callback is not applied (transport error, timeout, 500): update_auction_price
\* returns False, which place_bid ignores
PlaceBidSyncFail(t) ==
    /\ tasks[t].op = "bid" /\ tasks[t].pc = "sync"
    /\ response' = Resp("bid", "ok", tasks[t].aid, tasks[t].amount, tasks[t].uid)
    /\ tasks' = [tasks EXCEPT ![t] = IdleTask]
    /\ UNCHANGED <<auctions, nextId, bids, now, notified, budget>>
    /\ UNCHANGED gateway

\* GET /bids/auction/{auction_id}, GET /bids/user/{user_id} and, called by a
\* client, GET /bids/highest/{auction_id}: SELECTs on bids.db
GetAuctionBids(a) ==
    /\ Accept
    /\ response' = Resp("auction_bids", "ok", a, Cardinality(BidsOf(bids, a)), 0)
    /\ UNCHANGED <<auctions, nextId, bids, now, tasks, notified>>
    /\ UNCHANGED gateway

GetUserBids(u) ==
    /\ Accept
    /\ response' = Resp("user_bids", "ok", 0,
                        Cardinality({i \in 1..Len(bids) : bids[i].user_id = u}), u)
    /\ UNCHANGED <<auctions, nextId, bids, now, tasks, notified>>
    /\ UNCHANGED gateway

GetHighestBid(a) ==
    /\ Accept
    /\ response' = Resp("highest_bid", "ok", a, HighestBid(bids, a).user_id,
                        HighestBid(bids, a).amount)
    /\ UNCHANGED <<auctions, nextId, bids, now, tasks, notified>>
    /\ UNCHANGED gateway

\* ------------------------------------------------------------ settlement
\* auction service, get_highest_bid: the bid service's row, or None when the
\* bid service has no bid, answers another status, or the call raises
QueryHighestBid(bs, a, reached) ==
    IF reached THEN HighestBid(bs, a) ELSE NoBid

\* the UPDATE of a settlement leaving winning_amount out of its SET list
SettleRowNoAmount(row, hb) ==
    IF hb # NoBid
    THEN [row EXCEPT !.status = ENDED, !.winner_id = hb.user_id]
    ELSE [row EXCEPT !.status = ENDED]

\* the UPDATE of a settlement: with a highest bid, status, winner_id and
\* winning_amount; without one, status alone
SettleRow(row, hb) ==
    IF hb # NoBid
    THEN [row EXCEPT !.status = ENDED, !.winner_id = hb.user_id,
                     !.winning_amount = hb.amount]
    ELSE [row EXCEPT !.status = ENDED]

\* ... WHERE id = ?
SettleUpdate(au, a, hb) ==
    IF au[a].status = ABSENT THEN au ELSE [au EXCEPT ![a] = SettleRow(au[a], hb)]

Notify(n, a) == [n EXCEPT ![a] = Min(n[a] + 1, NotifyCap)]

\* end_auction_with_winner without its "Auction already ended" check
SettleVerdictNoEndedCheck(row, u) ==
    IF row.status = ABSENT THEN "NotFound"
    ELSE IF row.owner_id # u THEN "Forbidden"
    ELSE "ok"

\* end_auction_with_winner's checks before it asks for the highest bid
SettleVerdict(row, u) ==
    IF row.status = ABSENT THEN "NotFound"
    ELSE IF row.owner_id # u THEN "Forbidden"
    ELSE IF row.status = ENDED THEN "InvalidState"
    ELSE "ok"

\* PATCH /auctions/{auction_id}/end-with-winner, up to the await of get_highest_bid
SettleStart(t, a, u) ==
    /\ Accept
    /\ FreeSlot(t)
    /\ LET v == SettleVerdict(auctions[a], u)
       IN IF v = "ok"
          THEN /\ tasks' = [tasks EXCEPT ![t] =
                       [IdleTask EXCEPT !.op = "settle", !.pc = "query",
                                        !.aid = a, !.uid = u]]
               /\ UNCHANGED response
          ELSE /\ response' = Resp("settle", v, a, 0, 0)
               /\ UNCHANGED tasks
    /\ UNCHANGED <<auctions, nextId, bids, now, notified>>
    /\ UNCHANGED gateway

\* the bid service answers GET /bids/highest/{auction_id}, or the call fails
SettleQuery(t, reached) ==
    /\ tasks[t].op = "settle" /\ tasks[t].pc = "query"
    /\ tasks' = [tasks EXCEPT ![t].pc = "write",
                              ![t].hb = QueryHighestBid(bids, tasks[t].aid, reached),
                              ![t].unavailable = ~reached]
    /\ UNCHANGED <<auctions, nextId, bids, now, notified, response, budget>>
    /\ UNCHANGED gateway

\* end_auction_with_winner from the answer to its return: UPDATE, commit,
\* notify_winner when there is a highest bid; the UPDATE raises "database is
\* locked" (a 500) while a sweep holds the write lock
SettleWrite(t) ==
    /\ tasks[t].op = "settle" /\ tasks[t].pc = "write"
    /\ LET k == tasks[t]
       IN IF LockFree
          THEN /\ auctions' = SettleUpdate(auctions, k.aid, k.hb)
               /\ notified' = IF k.hb # NoBid THEN Notify(notified, k.aid) ELSE notified
               /\ response' = Resp("settle", "ok", k.aid, k.hb.user_id, k.hb.amount)
          ELSE /\ response' = Resp("settle", "Internal", k.aid, 0, 0)
               /\ UNCHANGED <<auctions, notified>>
    /\ tasks' = [tasks EXCEPT ![t] = IdleTask]
    /\ UNCHANGED <<nextId, bids, now, budget>>
    /\ UNCHANGED gateway

\* ----------------------------------------------------------------- sweep
\* the scan taking the PENDING auctions that have expired as well
AuctionsToEndWithPending(au, time) ==
    {a \in AuctionIds : au[a].status \in {LIVE, PENDING} /\ au[a].ends_at <= time}

\* SELECT id, title FROM auctions
\* WHERE status = 'live' AND datetime(ends_at) <= datetime('now')
AuctionsToEnd(au, time) ==
    {a \in AuctionIds : au[a].status = LIVE /\ au[a].ends_at <= time}

RECURSIVE InIdOrder(_)
InIdOrder(S) ==
    IF S = {} THEN <<>>
    ELSE LET a == CHOOSE x \in S : \A y \in S : x <= y
         IN <<a>> \o InIdOrder(S \ {a})

\* UPDATE auctions SET status = 'live' WHERE status = 'pending'
ActivatePending(au) ==
    [a \in AuctionIds |->
        IF au[a].status = PENDING THEN [au[a] EXCEPT !.status = LIVE] ELSE au[a]]

PendingCount(au) == Cardinality({a \in AuctionIds : au[a].status = PENDING})

\* the UPDATEs the sweep executed inside its transaction, in order
RECURSIVE ApplyStaged(_, _)
ApplyStaged(au, st) ==
    IF st = <<>> THEN au
    ELSE ApplyStaged(SettleUpdate(au, Head(st).aid, Head(st).hb), Tail(st))

\* the winner_notifications of the sweep, sent after its commit
RECURSIVE NotifyAll(_, _)
NotifyAll(n, st) ==
    IF st = <<>> THEN n
    ELSE NotifyAll(IF Head(st).hb # NoBid THEN Notify(n, Head(st).aid) ELSE n, Tail(st))

WinnerCount(st) == Cardinality({i \in 1..Len(st) : st[i].hb # NoBid})

\* the end of auto_update_auction_status: the UPDATE of the pending auctions,
\* the commit of the whole transaction, the notifications and the response
SweepCommit(t, st) ==
    /\ auctions' = ActivatePending(ApplyStaged(auctions, st))
    /\ notified' = NotifyAll(notified, st)
    /\ response' = [op |-> "sweep", code |-> "ok", aid |-> 0,
                    val |-> PendingCount(ApplyStaged(auctions, st)),
                    val2 |-> Len(st), val3 |-> WinnerCount(st)]
    /\ tasks' = [tasks EXCEPT ![t] = IdleTask]

\* the UPDATEs of a sweep whose calls of get_highest_bid are all answered
RECURSIVE StageAll(_, _)
StageAll(todo, bs) ==
    IF todo = <<>> THEN <<>>
    ELSE <<[aid |-> Head(todo), hb |-> HighestBid(bs, Head(todo))]>>
         \o StageAll(Tail(todo), bs)

\* auctions.db after auto_update_auction_status has run from its SELECT to its
\* commit with no other handler running in between
SweepAlone(au, bs, time) ==
    ActivatePending(ApplyStaged(au, StageAll(InIdOrder(AuctionsToEnd(au, time)), bs)))

\* the sweep calling notify_winner inside its loop, ahead of the UPDATE that
\* fails
SweepFailAfterNotify(t) ==
    /\ response' = Resp("sweep", "Internal", 0, 0, 0)
    /\ tasks' = [tasks EXCEPT ![t] = IdleTask]
    /\ notified' = IF tasks[t].todo # <<>> /\ tasks[t].hb # NoBid
                   THEN Notify(notified, Head(tasks[t].todo))
                   ELSE notified
    /\ UNCHANGED auctions

\* "database is locked": every exception of the handler becomes a 500 and the
\* connection is closed without a commit
SweepFail(t) ==
    /\ response' = Resp("sweep", "Internal", 0, 0, 0)
    /\ tasks' = [tasks EXCEPT ![t] = IdleTask]
    /\ UNCHANGED <<auctions, notified>>

\* GET /auctions/manage/auto-update-status, up to the first await of
\* get_highest_bid; with nothing to end, to its return
SweepStart(t) ==
    /\ Accept
    /\ FreeSlot(t)
    /\ LET todo == InIdOrder(AuctionsToEnd(auctions, now))
       IN IF todo # <<>>
          THEN /\ tasks' = [tasks EXCEPT ![t] =
                       [IdleTask EXCEPT !.op = "sweep", !.pc = "query", !.todo = todo]]
               /\ UNCHANGED <<auctions, notified, response>>
          ELSE IF LockFree THEN SweepCommit(t, <<>>) ELSE SweepFail(t)
    /\ UNCHANGED <<nextId, bids, now>>
    /\ UNCHANGED gateway

\* the bid service answers for the auction at hand, or the call fails
SweepQuery(t, reached) ==
    /\ tasks[t].op = "sweep" /\ tasks[t].pc = "query"
    /\ tasks' = [tasks EXCEPT ![t].pc = "update",
                     ![t].hb = QueryHighestBid(bids, Head(tasks[t].todo), reached),
                     ![t].unavailable = ~reached]
    /\ UNCHANGED <<auctions, nextId, bids, now, notified, response, budget>>
    /\ UNCHANGED gateway

\* the UPDATE for the auction at hand, then the next await of get_highest_bid;
\* after the last auction, the rest of the handler
SweepUpdate(t) ==
    /\ tasks[t].op = "sweep" /\ tasks[t].pc = "update"
    /\ LET k == tasks[t]
           st == Append(k.staged, [aid |-> Head(k.todo), hb |-> k.hb])
       IN IF ~LockFreeFor(t) THEN SweepFail(t)
          ELSE IF Tail(k.todo) # <<>>
          THEN /\ tasks' = [tasks EXCEPT ![t].pc = "query", ![t].hb = NoBid,
                                ![t].unavailable = FALSE,
                                ![t].todo = Tail(k.todo), ![t].staged = st]
               /\ UNCHANGED <<auctions, notified, response>>
          ELSE SweepCommit(t, st)
    /\ UNCHANGED <<nextId, bids, now, budget>>
    /\ UNCHANGED gateway

\* the clock advances
Tick ==
    /\ now < MaxTime
    /\ now' = now + 1
    /\ UNCHANGED <<auctions, nextId, bids, tasks, notified, response, budget>>
    /\ UNCHANGED gateway

Next ==
    \/ \E u \in Owners, sp \in StartPrices, e \in Times : CreateAuction(u, sp, e)
    \/ \E a \in Targets, u \in Principals : DeleteAuction(a, u)
    \/ \E a \in Targets, p \in Prices : UpdateAuctionPrice(a, p)
    \/ \E a \in Targets, s \in StatusLiterals \cup {"bogus"} : UpdateAuctionStatus(a, s)
    \/ \E a \in Targets : GetAuctionWinner(a)
    \/ \E t \in Tasks, a \in Targets, u \in Users, amt \in Amounts, r \in BOOLEAN :
           PlaceBidStart(t, a, u, amt, r)
    \/ \E t \in Tasks : PlaceBidValidate(t)
    \/ \E t \in Tasks : PlaceBidSync(t)
    \/ \E t \in Tasks : PlaceBidSyncFail(t)
    \/ \E a \in Targets : GetAuctionBids(a)
    \/ \E u \in Principals : GetUserBids(u)
    \/ \E a \in Targets : GetHighestBid(a)
    \/ \E t \in Tasks, a \in Targets, u \in Principals : SettleStart(t, a, u)
    \/ \E t \in Tasks, r \in BOOLEAN : SettleQuery(t, r)
    \/ \E t \in Tasks : SettleWrite(t)
    \/ \E t \in Tasks : SweepStart(t)
    \/ \E t \in Tasks, r \in BOOLEAN : SweepQuery(t, r)
    \/ \E t \in Tasks : SweepUpdate(t)
    \/ Tick

Spec == Init /\ [][Next]_vars

\* The runs in which the clients only create auctions, open them, bid and
\* settle, and no remote call fails: a subset of the runs of Spec, followed
\* for more requests.
InitBidding == InitStore /\ budget = MaxBiddingRequests

NextBidding ==
    \/ \E e \in Times : CreateAuction(1, 1, e)
    \/ \E a \in Targets : UpdateAuctionStatus(a, LIVE)
    \/ \E t \in Tasks, a \in Targets, u \in {2, 3}, amt \in {2, 3} :
           PlaceBidStart(t, a, u, amt, TRUE)
    \/ \E t \in Tasks : PlaceBidValidate(t)
    \/ \E t \in Tasks : PlaceBidSync(t)
    \/ \E t \in Tasks, a \in Targets : SettleStart(t, a, 1)
    \/ \E t \in Tasks : SettleQuery(t, TRUE)
    \/ \E t \in Tasks : SettleWrite(t)
    \/ \E t \in Tasks : SweepStart(t)
    \/ \E t \in Tasks : SweepQuery(t, TRUE)
    \/ \E t \in Tasks : SweepUpdate(t)
    \/ Tick

SpecBidding == InitBidding /\ [][NextBidding]_vars

\* The runs of Spec that start when auction 1 is LIVE and holds one bid: the
\* state after POST /auctions by user 1, PATCH status live and a bid of 2 by
\* user 2 whose price callback was applied.
InitStocked ==
    /\ auctions = [a \in AuctionIds |->
                      IF a = 1
                      THEN [NewRow(1, 1, 1) EXCEPT !.status = LIVE, !.current_price = 2]
                      ELSE NoRow]
    /\ nextId = 2
    /\ bids = InsertBid(<<>>, 2, 1, 2)
    /\ now = 0
    /\ tasks = [t \in Tasks |-> IdleTask]
    /\ notified = [a \in AuctionIds |-> 0]
    /\ response = Resp("bid", "ok", 1, 2, 2)
    /\ gateway = NoExchange
    /\ budget = MaxStockedRequests

SpecStocked == InitStocked /\ [][Next]_vars

\* One client that sends its requests one after the other, each after the
\* answer to the one before, and no remote call fails: create an auction
\* (starting price 1), then either open it (PATCH status live, or a sweep) or
\* only look at it, then a bid of 3 by user 2, a bid of 2 by user 3, a bid by
\* the owner, and the owner's end-with-winner.
ScenarioRequests == 6

ScenarioOwnerAmounts == {2, 4}

\* the client has its answers and sends its request number n + 1
ScenarioStep(n) ==
    /\ \A t \in Tasks : tasks[t] = IdleTask
    /\ ScenarioRequests - budget = n

ScenarioCreate == ScenarioStep(0) /\ \E e \in Times : CreateAuction(1, 1, e)

ScenarioOpen == ScenarioStep(1) /\ UpdateAuctionStatus(1, LIVE)

ScenarioSweep == ScenarioStep(1) /\ \E t \in Tasks : SweepStart(t)

ScenarioLook == ScenarioStep(1) /\ GetAuctionWinner(1)

ScenarioBidB == ScenarioStep(2) /\ \E t \in Tasks : PlaceBidStart(t, 1, 2, 3, TRUE)

ScenarioBidC == ScenarioStep(3) /\ \E t \in Tasks : PlaceBidStart(t, 1, 3, 2, TRUE)

ScenarioBidOwner ==
    ScenarioStep(4) /\ \E t \in Tasks, amt \in ScenarioOwnerAmounts :
                          PlaceBidStart(t, 1, 1, amt, TRUE)

ScenarioSettle == ScenarioStep(5) /\ \E t \in Tasks : SettleStart(t, 1, 1)

InitScenario == InitStore /\ budget = ScenarioRequests

NextScenario ==
    \/ ScenarioCreate
    \/ ScenarioOpen
    \/ ScenarioSweep
    \/ ScenarioLook
    \/ ScenarioBidB
    \/ ScenarioBidC
    \/ ScenarioBidOwner
    \/ ScenarioSettle
    \/ \E t \in Tasks : PlaceBidValidate(t)
    \/ \E t \in Tasks : PlaceBidSync(t)
    \/ \E t \in Tasks : SettleQuery(t, TRUE)
    \/ \E t \in Tasks : SettleWrite(t)
    \/ Tick

SpecScenario == InitScenario /\ [][NextScenario]_vars

\* The runs that start when auction 1 is LIVE, expired and holds one bid, and
\* auction 2 is PENDING and expired: the state after two POST /auctions by
\* user 1 (ends_at 0), PATCH /auctions/1/status live and a bid of 2 by user 2
\* whose price callback was applied.  The clients then change statuses,
\* delete, settle and sweep, and the bid service may fail to answer.
MaxSettlingRequests == 3

InitSettling ==
    /\ auctions = [a \in AuctionIds |->
                      IF a = 1
                      THEN [NewRow(1, 1, 0) EXCEPT !.status = LIVE, !.current_price = 2]
                      ELSE IF a = 2 THEN NewRow(1, 1, 0)
                      ELSE NoRow]
    /\ nextId = 3
    /\ bids = InsertBid(<<>>, 2, 1, 2)
    /\ now = 0
    /\ tasks = [t \in Tasks |-> IdleTask]
    /\ notified = [a \in AuctionIds |-> 0]
    /\ response = Resp("bid", "ok", 1, 2, 2)
    /\ gateway = NoExchange
    /\ budget = MaxSettlingRequests

NextSettling ==
    \/ \E a \in Targets, s \in {PENDING, LIVE} : UpdateAuctionStatus(a, s)
    \/ \E a \in Targets : DeleteAuction(a, 1)
    \/ \E t \in Tasks, a \in Targets : SettleStart(t, a, 1)
    \/ \E t \in Tasks, r \in BOOLEAN : SettleQuery(t, r)
    \/ \E t \in Tasks : SettleWrite(t)
    \/ \E t \in Tasks : SweepStart(t)
    \/ \E t \in Tasks, r \in BOOLEAN : SweepQuery(t, r)
    \/ \E t \in Tasks : SweepUpdate(t)
    \/ Tick

SpecSettling == InitSettling /\ [][NextSettling]_vars

\* ----------------------------------------------------------- auth gateway
SERVICES == {"user", "auction", "bid"}

\* the first segment of "/auctions" and of "/bids"
PROTECTED_ROUTES == {"auctions", "bids"}

\* the Authorization header of a request: absent, not starting with
\* "Bearer ", a bearer token that verify_token rejects, one that it accepts
Headers == {"missing", "malformed", "rejected", "valid"}

\* the statuses a backend answers with
BackendStatuses == {200, 400, 401, 403, 404, 500}

Route(name, method, path, service) ==
    [name |-> name, method |-> method, path |-> path, service |-> service]

\* the routes whose handler forwards at once
PublicRoutes ==
    { Route("register", "POST", <<"register">>, "user"),
      Route("login", "POST", <<"login">>, "user"),
      Route("get_user", "GET", <<"users", "{id}">>, "user"),
      Route("get_auctions", "GET", <<"auctions">>, "auction"),
      Route("get_auction", "GET", <<"auctions", "{id}">>, "auction"),
      Route("auto_update_auction_status", "GET",
            <<"auctions", "manage", "auto-update-status">>, "auction"),
      Route("get_auction_bids", "GET", <<"bids", "auction", "{id}">>, "bid"),
      Route("get_user_bids", "GET", <<"bids", "user", "{id}">>, "bid"),
      Route("get_highest_bid", "GET", <<"bids", "highest", "{id}">>, "bid") }

\* the routes whose handler declares authorization: str = Header(...) and
\* awaits validate_token before it forwards
ProtectedRoutes ==
    { Route("create_auction", "POST", <<"auctions">>, "auction"),
      Route("delete_auction", "DELETE", <<"auctions", "{id}">>, "auction"),
      Route("update_auction_status", "PATCH", <<"auctions", "{id}", "status">>, "auction"),
      Route("place_bid", "POST", <<"bids">>, "bid") }

\* requires_auth(path, method); path.startswith(p) compares the first segment
RequiresAuth(path, method) ==
    IF method = "GET" /\ Head(path) = "auctions" THEN FALSE
    ELSE Head(path) \in PROTECTED_ROUTES

\* the Token Verifier: a payload for a token it accepts, None otherwise
VerifyToken(h) == h = "valid"

\* validate_token: the status of the HTTPException it raises, 200 when it returns
ValidateToken(h) ==
    IF h \in {"missing", "malformed"} THEN 401
    ELSE IF ~VerifyToken(h) THEN 401
    ELSE 200

\* forward_request followed by return result["content"]: the content of the
\* backend's answer goes out as the body of the route's own, successful,
\* response; a transport error becomes a 503
ClientStatus(reached) == IF reached THEN 200 ELSE 503

Forwarded(r, h, verified, reached, b) ==
    [route |-> r.name, method |-> r.method, path |-> r.path, header |-> h,
     verified |-> verified, forwarded |-> r.service,
     backend |-> IF reached THEN b ELSE 0, status |-> ClientStatus(reached)]

Refused(r, h, status) ==
    [route |-> r.name, method |-> r.method, path |-> r.path, header |-> h,
     verified |-> FALSE, forwarded |-> "none", backend |-> 0, status |-> status]

\* a route that forwards at once: the backend answers with status b, or the
\* call does not reach it
GatewayPublic(r, h, reached, b) ==
    /\ gateway' = Forwarded(r, h, FALSE, reached, b)
    /\ UNCHANGED <<auctions, nextId, bids, now, tasks, notified, response, budget>>

\* a route with a required Authorization header: FastAPI answers 422 when the
\* header is absent, validate_token raises 401, otherwise the route forwards
GatewayProtected(r, h, reached, b) ==
    /\ gateway' =
         IF h = "missing" THEN Refused(r, h, 422)
         ELSE IF ValidateToken(h) # 200 THEN Refused(r, h, ValidateToken(h))
         ELSE Forwarded(r, h, TRUE, reached, b)
    /\ UNCHANGED <<auctions, nextId, bids, now, tasks, notified, response, budget>>

NextGateway ==
    \/ \E r \in PublicRoutes, h \in Headers, b \in BackendStatuses :
           GatewayPublic(r, h, TRUE, b)
    \/ \E r \in PublicRoutes, h \in Headers : GatewayPublic(r, h, FALSE, 0)
    \/ \E r \in ProtectedRoutes, h \in Headers, b \in BackendStatuses :
           GatewayProtected(r, h, TRUE, b)
    \/ \E r \in ProtectedRoutes, h \in Headers : GatewayProtected(r, h, FALSE, 0)

\* the requests that go through the gateway, the backend's answer being given
SpecGateway == Init /\ [][NextGateway]_vars

\* ================================================================ claims

AllIdle == \A t \in Tasks : tasks[t] = IdleTask

\* C1: for every auction, current_price >= starting_price in every reachable
\* state, whatever requests were served (the price endpoint included).
C1_PriceNeverBelowStart ==
    \A a \in AuctionIds :
        Exists(a) => auctions[a].current_price >= auctions[a].starting_price

\* the selection the claim C2 names: the maximum amount, and among the bids
\* of that amount the one with the earliest timestamp
EarliestHighest(bs, a) ==
    bs[CHOOSE i \in BidsOf(bs, a) :
          \A j \in BidsOf(bs, a) \ {i} :
              \/ bs[i].amount > bs[j].amount
              \/ bs[i].amount = bs[j].amount /\ bs[i].timestamp < bs[j].timestamp]

HasBidAboveStart(a) ==
    \E i \in BidsOf(bids, a) : bids[i].amount > auctions[a].starting_price

WinnerIs(au, a, b) ==
    /\ au[a].status = ENDED
    /\ au[a].winner_id = b.user_id
    /\ au[a].winning_amount = b.amount

\* C2: when a settlement (manual, or the sweep's) writes its result for an
\* auction that has a recorded bid above the starting price, the winner it
\* writes is the bidder of the maximum amount, the earliest such bid on a tie,
\* and winning_amount is that amount.  Stated for the settlements whose answer
\* from the bid service is still the bid store's answer when they write.
C2_SettleHonoursEarliestHighest ==
    [][\A t \in Tasks :
          LET k == tasks[t]
              a == IF k.op = "sweep" THEN Head(k.todo) ELSE k.aid
          IN  ( /\ \/ SettleWrite(t) /\ LockFree
                   \/ SweepUpdate(t) /\ LockFreeFor(t) /\ Len(k.todo) = 1
                /\ Exists(a)
                /\ k.hb = HighestBid(bids, a)
                /\ HasBidAboveStart(a) )
              => WinnerIs(auctions', a, EarliestHighest(bids, a))]_vars

\* C3 as stated: a Settle by the owner on an auction that is already ENDED
\* is a no-op that succeeds and returns the stored winner.
C3_SettleOnEndedReturnsWinner ==
    [][\A t \in Tasks, a \in AuctionIds :
          ( /\ SettleStart(t, a, auctions[a].owner_id)
            /\ auctions[a].status = ENDED )
          => /\ response' = Resp("settle", "ok", a, auctions[a].winner_id,
                                 auctions[a].winning_amount)
             /\ UNCHANGED <<auctions, notified>>]_vars

\* C3 as amended: a Settle by the owner on an auction that is already ENDED
\* is rejected with InvalidState ("Auction already ended"); it changes no
\* auction, starts no settlement and emits no notification.
C3_SettleOnEndedRejected ==
    [][\A t \in Tasks, a \in AuctionIds :
          ( /\ SettleStart(t, a, auctions[a].owner_id)
            /\ auctions[a].status = ENDED )
          => /\ response' = Resp("settle", "InvalidState", a, 0, 0)
             /\ UNCHANGED <<auctions, notified, tasks, bids>>]_vars

C3_Witness ==
    /\ response.op = "settle" /\ response.code = "InvalidState"
    /\ Exists(response.aid)
    /\ auctions[response.aid].status = ENDED

\* SweepAlone is what the handler does: a sweep that finds nothing to end, or
\* one auction to end, and runs with no other handler in flight and with the
\* bid service's current answer, leaves auctions.db as SweepAlone says.
SweepAloneIsTheHandler ==
    [][\A t \in Tasks :
          /\ (SweepStart(t) /\ AllIdle /\ AuctionsToEnd(auctions, now) = {})
                => auctions' = SweepAlone(auctions, bids, now)
          /\ ( /\ SweepUpdate(t)
               /\ \A u \in Tasks \ {t} : tasks[u] = IdleTask
               /\ tasks[t].staged = <<>>
               /\ AuctionsToEnd(auctions, now) = {Head(tasks[t].todo)}
               /\ Len(tasks[t].todo) = 1
               /\ tasks[t].hb = HighestBid(bids, Head(tasks[t].todo)) )
                => auctions' = SweepAlone(auctions, bids, now)]_vars

\* C4: in a state with no handler in flight, a sweep run right after a sweep
\* (no other request, no tick in between) leaves auctions.db as the first
\* sweep left it.
C4_SecondSweepChangesNothing ==
    AllIdle =>
        LET once == SweepAlone(auctions, bids, now)
        IN  SweepAlone(once, bids, now) = once

\* the step in which place_bid decides on a bid that is not above the
\* current price it was given
LowBidDecided(t) ==
    /\ PlaceBidValidate(t)
    /\ tasks[t].seen.status # ABSENT
    /\ tasks[t].amount <= tasks[t].seen.current_price

\* C5 as stated: a bid whose amount is <= the current price is rejected with
\* PriceTooLow whatever the status of the auction, and no bid is recorded.
C5_LowBidAlwaysPriceTooLow ==
    [][\A t \in Tasks :
          LowBidDecided(t) => response'.code = "PriceTooLow" /\ bids' = bids]_vars

\* C5 as amended: a bid whose amount is <= the current price observed at
\* validation is rejected and no bid is recorded; the error is PriceTooLow
\* (with that price) when the observed status is LIVE, and InvalidState when
\* it is PENDING or ENDED.
C5_LowBidRejectedStatusFirst ==
    [][\A t \in Tasks :
          LowBidDecided(t) =>
              /\ bids' = bids
              /\ tasks'[t] = IdleTask
              /\ response' =
                   IF tasks[t].seen.status = LIVE
                   THEN Resp("bid", "PriceTooLow", tasks[t].aid,
                             tasks[t].seen.current_price, 0)
                   ELSE Resp("bid", "InvalidState", tasks[t].aid, 0, 0)]_vars

C5_Witness ==
    /\ response.op = "bid" /\ response.code = "PriceTooLow"
    /\ Exists(response.aid)
    /\ auctions[response.aid].status = LIVE
    /\ response.val = auctions[response.aid].current_price
    /\ bids = <<>>

\* C6: a bid on an auction whose status observed at validation is PENDING or
\* ENDED is rejected with InvalidState, for any amount and bidder, and the
\* step changes neither the bid store nor any auction.
C6_BidOnNotLiveRejected ==
    [][\A t \in Tasks :
          ( /\ PlaceBidValidate(t)
            /\ tasks[t].seen.status \in {PENDING, ENDED} )
          => /\ response' = Resp("bid", "InvalidState", tasks[t].aid, 0, 0)
             /\ tasks'[t] = IdleTask
             /\ UNCHANGED <<bids, auctions>>]_vars

C6_Witness ==
    /\ response.op = "bid" /\ response.code = "InvalidState"
    /\ Exists(response.aid)
    /\ auctions[response.aid].status \in {PENDING, ENDED}
    /\ bids = <<>>

Rank(s) == IF s = PENDING THEN 1 ELSE IF s = LIVE THEN 2 ELSE 3

\* C7: the status of an auction never moves backwards along
\* PENDING -> LIVE -> ENDED, and an ENDED auction stays ENDED.
C7_StatusOnlyForward ==
    [][\A a \in AuctionIds :
          (auctions[a].status # ABSENT /\ auctions'[a].status # ABSENT)
          => Rank(auctions'[a].status) >= Rank(auctions[a].status)]_vars

\* C8: an auction carries a winner_id only when its status is ENDED (no
\* PENDING or LIVE auction carries a winner_id).
C8_WinnerOnlyOnEnded ==
    \A a \in AuctionIds :
        auctions[a].winner_id # NULL => auctions[a].status = ENDED

\* C9: once winner_id and winning_amount of an auction are set, no step
\* changes either value while the auction exists.
C9_WinnerImmutable ==
    [][\A a \in AuctionIds :
          (auctions[a].winner_id # NULL /\ auctions'[a].status # ABSENT)
          => /\ auctions'[a].winner_id = auctions[a].winner_id
             /\ auctions'[a].winning_amount = auctions[a].winning_amount]_vars

\* C10: settlements of one auction that overlap (two manual settlements, two
\* sweeps, one of each) emit at most one winner notification: a notification
\* is emitted for an auction only by the step that closes it, never by a
\* step that finds it ENDED.
C10_NotifyOnlyOnClose ==
    [][\A a \in AuctionIds :
          notified'[a] # notified[a]
          => /\ auctions[a].status \in {PENDING, LIVE}
             /\ auctions'[a].status = ENDED]_vars

\* C11: in every reachable state, for every interleaving of place_bid with
\* the settlements, an ENDED auction has no recorded bid above its
\* winning_amount, and has a winner if it has any recorded bid.
C11_NoBidAboveWinningAmount ==
    \A a \in AuctionIds :
        auctions[a].status = ENDED =>
            \A i \in BidsOf(bids, a) :
                /\ auctions[a].winner_id # NULL
                /\ bids[i].amount <= auctions[a].winning_amount

\* C12: no step taken while an auction is LIVE (before and after the step)
\* lowers its current_price, for every interleaving of place_bid requests.
C12_LivePriceNeverDrops ==
    [][\A a \in AuctionIds :
          (auctions[a].status = LIVE /\ auctions'[a].status = LIVE)
          => auctions'[a].current_price >= auctions[a].current_price]_vars

\* C13: every recorded bid has an amount strictly greater than the amount of
\* every bid recorded earlier for the same auction.
C13_BidsStrictlyIncreasing ==
    \A a \in AuctionIds :
        \A i, j \in BidsOf(bids, a) :
            i < j => bids[i].amount < bids[j].amount

\* C14: place_bid answers with the error of the first failing check in the
\* order exists (NotFound), status LIVE (InvalidState), amount above the
\* current price (PriceTooLow), bidder not the owner (SelfBidForbidden); a
\* rejection records no bid, changes no auction and ends the handler with no
\* price callback; only a bid that passes all four is recorded.
C14_ChecksInFixedOrder ==
    [][\A t \in Tasks :
          PlaceBidValidate(t) =>
              LET k == tasks[t]
                  first ==
                      IF k.seen.status = ABSENT THEN "NotFound"
                      ELSE IF k.seen.status # LIVE THEN "InvalidState"
                      ELSE IF k.amount <= k.seen.current_price THEN "PriceTooLow"
                      ELSE IF k.uid = k.seen.owner_id THEN "SelfBidForbidden"
                      ELSE "ok"
              IN  IF first = "ok"
                  THEN Len(bids') = Len(bids) + 1 /\ tasks'[t].pc = "sync"
                  ELSE /\ response'.op = "bid" /\ response'.code = first
                       /\ tasks'[t] = IdleTask
                       /\ UNCHANGED <<bids, auctions>>]_vars

C14_Witness ==
    /\ response.op = "bid" /\ response.code = "SelfBidForbidden"
    /\ Exists(response.aid)
    /\ auctions[response.aid].status = LIVE
    /\ bids = <<>>
    /\ AllIdle

\* C15: a settlement (manual, or the sweep's) whose highest-bid query failed
\* does not close an auction with winner_id unset.
C15_OutageDoesNotCloseWithoutWinner ==
    [][\A t \in Tasks :
          ((SettleWrite(t) \/ SweepUpdate(t)) /\ tasks[t].unavailable)
          => \A a \in AuctionIds :
                 ~ ( /\ auctions[a].status \in {PENDING, LIVE}
                     /\ auctions'[a].status = ENDED
                     /\ auctions'[a].winner_id = NULL )]_vars

\* the bid a place_bid in flight stands for
BidOfTask(k) ==
    {i \in BidsOf(bids, k.aid) : bids[i].user_id = k.uid /\ bids[i].amount = k.amount}

\* C16: a place_bid whose four checks pass records its bid; whatever becomes
\* of its price callback it then answers success and its bid stays recorded;
\* when the callback fails, every auction is left as it was.
C16_BidStandsWithoutCallback ==
    [][\A t \in Tasks :
          LET k == tasks[t]
          IN  /\ ( /\ PlaceBidValidate(t)
                   /\ k.seen.status = LIVE
                   /\ k.amount > k.seen.current_price
                   /\ k.uid # k.seen.owner_id )
                  => /\ bids' = Append(bids, [user_id |-> k.uid, auction_id |-> k.aid,
                                              amount |-> k.amount,
                                              timestamp |-> Len(bids) + 1])
                     /\ tasks'[t].pc = "sync"
              /\ (k.op = "bid" /\ k.pc = "sync" /\ tasks'[t] # k)
                  => /\ response' = Resp("bid", "ok", k.aid, k.amount, k.uid)
                     /\ bids' = bids
                     /\ BidOfTask(k) # {}
                     /\ \/ auctions' = auctions
                        \/ auctions' = SetPrice(auctions, k.aid, k.amount)
              /\ PlaceBidSyncFail(t) => auctions' = auctions]_vars

\* a bid answered with success and recorded, while the auction still shows
\* the price from before the bid
C16_Witness ==
    /\ response.op = "bid" /\ response.code = "ok"
    /\ AllIdle
    /\ Exists(response.aid)
    /\ \E i \in BidsOf(bids, response.aid) :
           /\ bids[i].amount = response.val
           /\ bids[i].user_id = response.val2
    /\ auctions[response.aid].current_price = auctions[response.aid].starting_price
    /\ auctions[response.aid].current_price < response.val

\* C17: a bid-placement request that reaches the gateway with no
\* Authorization header, with one that does not start with "Bearer ", or
\* with a token the verifier rejects is answered 401 Unauthorized, and the
\* gateway makes no downstream call for it.
C17_BidWithoutValidTokenUnauthorized ==
    (gateway.route = "place_bid" /\ gateway.header # "valid")
    => gateway.status = 401 /\ gateway.forwarded = "none"

\* the gateway routes whose backend handler writes auctions.db or bids.db
StateChangingRoutes ==
    {"create_auction", "delete_auction", "update_auction_status",
     "auto_update_auction_status", "place_bid"}

\* C18: the gateway forwards a request of a state-changing route, or of a
\* route that requires_auth(path, method) classifies as protected, only
\* after validate_token has accepted its token, and forwards the reads on
\* auctions without one.
C18_ForwardOnlyAfterValidation ==
    gateway.forwarded # "none" =>
        /\ ( \/ gateway.route \in StateChangingRoutes
             \/ RequiresAuth(gateway.path, gateway.method) ) => gateway.verified
        /\ gateway.route \in {"get_auctions", "get_auction"} => ~gateway.verified

\* C19: the status the client receives for a request the gateway forwarded
\* is the status the backend answered with.
C19_BackendStatusRelayed ==
    (gateway.forwarded # "none" /\ gateway.backend # 0)
    => gateway.status = gateway.backend

\* the state SpecStocked starts from, as a state of the other specifications
StockedReached ==
    /\ auctions = [a \in AuctionIds |->
                      IF a = 1
                      THEN [NewRow(1, 1, 1) EXCEPT !.status = LIVE, !.current_price = 2]
                      ELSE NoRow]
    /\ nextId = 2
    /\ bids = InsertBid(<<>>, 2, 1, 2)
    /\ now = 0
    /\ AllIdle
    /\ notified = [a \in AuctionIds |-> 0]
    /\ response = Resp("bid", "ok", 1, 2, 2)

\* C20: every step leaves the recorded bids as they are; the only step that
\* changes bids.db is the one in which a place_bid passes its checks, and it
\* appends exactly one bid.
C20_BidStoreAppendOnly ==
    [][/\ SubSeq(bids', 1, Len(bids)) = bids
       /\ Len(bids') \in {Len(bids), Len(bids) + 1}
       /\ bids' # bids =>
              \E t \in Tasks :
                  /\ PlaceBidValidate(t)
                  /\ tasks'[t].pc = "sync"
                  /\ bids'[Len(bids')].user_id = tasks[t].uid
                  /\ bids'[Len(bids')].auction_id = tasks[t].aid
                  /\ bids'[Len(bids')].amount = tasks[t].amount]_vars

\* a second bid was appended, the auction of both was then deleted, and both
\* bids are still recorded
C20_Witness ==
    /\ Len(bids) = 2
    /\ bids[1] = InsertBid(<<>>, 2, 1, 2)[1]
    /\ bids[2].auction_id = 1
    /\ auctions[1].status = ABSENT
    /\ AllIdle

\* C21: in every reachable state no recorded bid of an existing auction has
\* the auction's owner as its bidder, and no auction has its owner as its
\* winner.
C21_OwnerHoldsNoBidOnOwnAuction ==
    /\ \A i \in 1..Len(bids) :
           Exists(bids[i].auction_id)
           => bids[i].user_id # auctions[bids[i].auction_id].owner_id
    /\ \A a \in AuctionIds :
           (Exists(a) /\ auctions[a].winner_id # NULL)
           => auctions[a].winner_id # auctions[a].owner_id

\* the owner bid above the current price of their LIVE auction and was
\* turned away
C21_Witness ==
    /\ response.op = "bid" /\ response.code = "SelfBidForbidden"
    /\ Exists(response.aid)
    /\ auctions[response.aid].status = LIVE
    /\ Len(bids) = 1
    /\ AllIdle

\* C22 as stated: in the scenario, after the creation the auction is PENDING
\* at its starting price; the bid of 3 by user 2 is accepted and the price
\* becomes 3; the bid of 2 by user 3 is rejected PriceTooLow with threshold 3;
\* the owner's bid is rejected SelfBidForbidden; the settlement leaves the
\* auction ENDED with winner 2 and winning amount 3.
C22_ScenarioAsStated ==
    /\ ScenarioStep(1)
        => /\ response = Resp("create", "ok", 1, 1, 0)
           /\ auctions[1].status = PENDING /\ auctions[1].current_price = 1
    /\ ScenarioStep(3)
        => /\ response = Resp("bid", "ok", 1, 3, 2)
           /\ auctions[1].current_price = 3
    /\ ScenarioStep(4) => response = Resp("bid", "PriceTooLow", 1, 3, 0)
    /\ ScenarioStep(5) => response = Resp("bid", "SelfBidForbidden", 1, 0, 0)
    /\ ScenarioStep(6)
        => /\ auctions[1].status = ENDED
           /\ auctions[1].winner_id = 2 /\ auctions[1].winning_amount = 3

\* C22 amended: the same scenario once the auction has been opened and with
\* the owner bidding above the current price.  After the creation the auction
\* is PENDING at its starting price; on the LIVE auction the bid of 3 by user 2
\* is accepted and the price becomes 3, the bid of 2 by user 3 is rejected
\* PriceTooLow with threshold 3 and nothing is recorded, the owner's bid above
\* 3 is rejected SelfBidForbidden and nothing is recorded; the settlement of
\* the LIVE auction leaves it ENDED with winner 2 and winning amount 3.
C22_ScenarioOnceOpened ==
    [][/\ ScenarioStep(1)'
           => /\ response' = Resp("create", "ok", 1, 1, 0)
              /\ auctions'[1].status = PENDING /\ auctions'[1].current_price = 1
       /\ (ScenarioStep(3)' /\ auctions'[1].status = LIVE)
           => /\ response' = Resp("bid", "ok", 1, 3, 2)
              /\ auctions'[1].current_price = 3
              /\ Len(bids') = 1
       /\ (ScenarioStep(4)' /\ auctions'[1].status = LIVE)
           => /\ response' = Resp("bid", "PriceTooLow", 1, 3, 0)
              /\ auctions'[1].current_price = 3
              /\ Len(bids') = 1
       /\ \A t \in Tasks :
              (/\ PlaceBidValidate(t)
               /\ tasks[t].uid = auctions[1].owner_id
               /\ auctions[1].status = LIVE
               /\ tasks[t].amount > auctions[1].current_price)
              => /\ response' = Resp("bid", "SelfBidForbidden", 1, 0, 0)
                 /\ bids' = bids
       /\ \A t \in Tasks :
              (SettleWrite(t) /\ auctions[1].status = LIVE)
              => /\ auctions'[1].status = ENDED
                 /\ auctions'[1].winner_id = 2
                 /\ auctions'[1].winning_amount = 3
                 /\ auctions'[1].current_price = 3
                 /\ response' = Resp("settle", "ok", 1, 2, 3)
      ]_vars

\* the opened scenario has run to its end
C22_Witness ==
    /\ ScenarioStep(6)
    /\ response = Resp("settle", "ok", 1, 2, 3)
    /\ auctions[1].status = ENDED
    /\ auctions[1].winner_id = 2 /\ auctions[1].winning_amount = 3
    /\ Len(bids) = 1

\* C23: whenever no bid is in flight (every issued price callback has been
\* applied), the current_price of a LIVE auction that has bids equals the
\* highest amount among its recorded bids.
C23_QuietPriceIsHighestBid ==
    \A a \in AuctionIds :
        (/\ AllIdle
         /\ Exists(a) /\ auctions[a].status = LIVE
         /\ BidsOf(bids, a) # {})
        => /\ \A i \in BidsOf(bids, a) : bids[i].amount <= auctions[a].current_price
           /\ \E i \in BidsOf(bids, a) : bids[i].amount = auctions[a].current_price

\* C24: a settlement whose write finds the auction PENDING leaves its status,
\* winner_id and winning_amount as they are.
C24_SettleLeavesPendingAlone ==
    [][\A t \in Tasks :
          (/\ SettleWrite(t)
           /\ Exists(tasks[t].aid)
           /\ auctions[tasks[t].aid].status = PENDING)
          => /\ auctions'[tasks[t].aid].status = PENDING
             /\ auctions'[tasks[t].aid].winner_id = auctions[tasks[t].aid].winner_id
             /\ auctions'[tasks[t].aid].winning_amount
                    = auctions[tasks[t].aid].winning_amount
      ]_vars

\* handler t's sweep commits in this step
SweepCommits(t) ==
    /\ SweepStart(t) \/ SweepUpdate(t)
    /\ tasks'[t] = IdleTask
    /\ response'.op = "sweep" /\ response'.code = "ok"

\* the auctions the committing sweep of handler t found LIVE and expired
Scanned(t) ==
    IF tasks[t].op = "sweep"
    THEN {tasks[t].staged[i].aid : i \in 1..Len(tasks[t].staged)}
         \cup {tasks[t].todo[i] : i \in 1..Len(tasks[t].todo)}
    ELSE {}

\* C25: a committing sweep leaves every auction it scanned (LIVE, expired)
\* ENDED, with the bidder and amount of the auction's highest recorded bid as
\* winner if it has a bid; leaves the other LIVE auctions LIVE; turns every
\* PENDING auction LIVE; and reports the numbers of auctions activated,
\* closed, and closed with a winner.
C25_SweepClosesScannedAndActivatesPending ==
    [][\A t \in Tasks :
          SweepCommits(t)
          => /\ \A a \in Scanned(t) :
                    Exists(a)
                    => /\ auctions'[a].status = ENDED
                       /\ BidsOf(bids, a) # {}
                           => /\ auctions'[a].winner_id = HighestBid(bids, a).user_id
                              /\ auctions'[a].winning_amount = HighestBid(bids, a).amount
             /\ \A a \in AuctionIds \ Scanned(t) :
                    auctions[a].status \in {LIVE, PENDING}
                    => auctions'[a].status = LIVE
             /\ response'.val
                    = Cardinality({a \in AuctionIds \ Scanned(t) :
                                      auctions[a].status = PENDING})
             /\ response'.val2 = Cardinality(Scanned(t))
             /\ response'.val3
                    = Cardinality({a \in Scanned(t) : BidsOf(bids, a) # {}})
      ]_vars

\* the two rows agree on every column but current_price
SameButPrice(old, new) == new = [old EXCEPT !.current_price = new.current_price]

\* the two rows agree on every column but status, winner_id and winning_amount
SameButOutcome(old, new) ==
    new = [old EXCEPT !.status = new.status, !.winner_id = new.winner_id,
                      !.winning_amount = new.winning_amount]

\* C26: a price update (by a client or by a bid's callback) changes nothing
\* but the current_price of the addressed auction and creates no row; a
\* settlement step (manual or sweep) changes nothing but status, winner_id
\* and winning_amount, and neither creates nor removes a row.
C26_FrameOfPriceUpdateAndSettlement ==
    [][/\ \A a \in AuctionIds :
              ((\E p \in Prices : UpdateAuctionPrice(a, p))
               \/ (\E t \in Tasks : PlaceBidSync(t) /\ tasks[t].aid = a))
              => /\ \A b \in AuctionIds \ {a} : auctions'[b] = auctions[b]
                 /\ SameButPrice(auctions[a], auctions'[a])
                 /\ ~Exists(a) => auctions'[a] = NoRow
                 /\ nextId' = nextId /\ bids' = bids
       /\ \A t \in Tasks :
              (SettleWrite(t) \/ SweepStart(t) \/ SweepUpdate(t))
              => /\ \A b \in AuctionIds :
                        /\ SameButOutcome(auctions[b], auctions'[b])
                        /\ (auctions'[b].status = ABSENT) <=> (auctions[b].status = ABSENT)
                 /\ nextId' = nextId /\ bids' = bids
      ]_vars

\* auction 1 was settled with its winner at price 2, and a later price update
\* moved its current_price to 3 and nothing else
C26_Witness ==
    /\ response = Resp("price", "ok", 1, 3, 0)
    /\ auctions[1].status = ENDED
    /\ auctions[1].winner_id = 2 /\ auctions[1].winning_amount = 2
    /\ auctions[1].current_price = 3 /\ auctions[1].starting_price = 1

\* C27: a row disappears only in a delete request of its owner made while
\* the auction is not ENDED; a delete request of another principal is
\* answered Forbidden and changes nothing.
C27_DeleteOnlyByOwnerBeforeSettlement ==
    [][\A a \in AuctionIds :
          /\ (Exists(a) /\ auctions'[a].status = ABSENT)
              => /\ DeleteAuction(a, auctions[a].owner_id)
                 /\ auctions[a].status # ENDED
          /\ \A u \in Principals :
                 (DeleteAuction(a, u) /\ Exists(a) /\ u # auctions[a].owner_id)
                 => /\ response' = Resp("delete", "Forbidden", a, 0, 0)
                    /\ auctions' = auctions
      ]_vars

\* C28: whenever a bid is appended to the Bid Store, the stored status of its
\* auction is LIVE at that moment.
C28_BidInsertedOnlyWhileLive ==
    [][bids' # bids
       => /\ Len(bids') = Len(bids) + 1
          /\ auctions[bids'[Len(bids')].auction_id].status = LIVE
      ]_vars

\* handler t's request ends in this step with a 500
Aborts(t) ==
    /\ SettleWrite(t) \/ SweepStart(t) \/ SweepUpdate(t)
    /\ tasks'[t] = IdleTask
    /\ response'.code = "Internal"

\* C29: a winner notification for an auction is emitted only in the step in
\* which a manual settlement of that auction, or a sweep that scanned it,
\* commits, and the committed row (if the auction still exists) is ENDED with
\* a winner; a settlement or sweep that ends with a failure emits no
\* notification and leaves auctions.db as it is.
C29_NotifyOnlyWithCommit ==
    [][/\ \A a \in AuctionIds :
              notified'[a] # notified[a]
              => /\ \E t \in Tasks :
                        \/ /\ SettleWrite(t) /\ tasks[t].aid = a
                           /\ response' = Resp("settle", "ok", a, tasks[t].hb.user_id,
                                                tasks[t].hb.amount)
                        \/ SweepCommits(t) /\ a \in Scanned(t)
                 /\ Exists(a)
                     => /\ auctions'[a].status = ENDED
                        /\ auctions'[a].winner_id # NULL
                        /\ auctions'[a].winning_amount # NULL
       /\ \A t \in Tasks :
              Aborts(t) => (notified' = notified /\ auctions' = auctions)
      ]_vars

\* one sweep closed auctions 1 and 2 and notified the winner of auction 1
C29_Witness ==
    /\ response.op = "sweep" /\ response.code = "ok"
    /\ response.val2 = 2 /\ response.val3 = 1
    /\ auctions[1].status = ENDED /\ auctions[1].winner_id = 2
    /\ auctions[2].status = ENDED /\ auctions[2].winner_id = NULL
    /\ notified[1] = 1 /\ notified[2] = 0

\* C30: a sweep scans only auctions stored as LIVE, so an auction that is
\* PENDING when the sweep scans is not among those the sweep closes; the
\* sweep's commit ends no auction outside its scan and turns every auction
\* stored as PENDING and not scanned into LIVE, whatever its ends_at.
C30_SweepNeverEndsPending ==
    [][\A t \in Tasks :
          /\ (SweepStart(t) /\ tasks'[t].op = "sweep")
              => \A a \in AuctionIds :
                    auctions[a].status = PENDING => a \notin Scanned(t)'
          /\ (SweepQuery(t, TRUE) \/ SweepQuery(t, FALSE) \/ SweepUpdate(t))
              => Scanned(t)' \subseteq Scanned(t)
          /\ SweepCommits(t)
              => \A a \in AuctionIds :
                    /\ (auctions[a].status # ENDED /\ auctions'[a].status = ENDED)
                        => a \in Scanned(t)
                    /\ (auctions[a].status = PENDING /\ a \notin Scanned(t))
                        => auctions'[a].status = LIVE
      ]_vars

\* the sweep closed auction 1 and left auction 2, PENDING and expired when it
\* scanned, LIVE
C30_Witness ==
    /\ response.op = "sweep" /\ response.code = "ok"
    /\ response.val = 1 /\ response.val2 = 1
    /\ auctions[1].status = ENDED
    /\ auctions[2].status = LIVE /\ auctions[2].ends_at <= now
    /\ budget = MaxSettlingRequests - 1

\* the state SpecSettling starts from, as a state of the other specifications
SettlingReached ==
    /\ auctions = [a \in AuctionIds |->
                      IF a = 1
                      THEN [NewRow(1, 1, 0) EXCEPT !.status = LIVE, !.current_price = 2]
                      ELSE IF a = 2 THEN NewRow(1, 1, 0)
                      ELSE NoRow]
    /\ bids = InsertBid(<<>>, 2, 1, 2)
    /\ now = 0
    /\ AllIdle
    /\ notified = [a \in AuctionIds |-> 0]
    /\ response = Resp("bid", "ok", 1, 2, 2)
====
